---------------------------- MODULE Spec2Model ----------------------------
(***************************************************************************)
(* Model of the cash-and-carry P/L calculator                              *)
(* (src/spread_trade_pl_calculator.py) and of its web form                 *)
(* (src/streamlit_app.py).                                                 *)
(*                                                                         *)
(* Numbers.  The program computes in binary floating point and rounds each *)
(* line item with round(x, 2).  The model computes the same formulas in    *)
(* exact fixed point: prices, dividend and management fee are whole yen,   *)
(* loan_rate is in units of 1/RateScale, consumption_tax_rate in units of  *)
(* 1/TaxScale, the withholding rate in units of 1/WithholdingScale, and    *)
(* every TradeResult field is an integer number of sen (1/100 yen).  An    *)
(* unrounded amount in yen is a fraction <<num, den>>; Round2 rounds it to *)
(* sen, ties to even, as round() does.  Representation error of the binary *)
(* floats (about 1e-13 yen) is not modelled.                               *)
(***************************************************************************)
EXTENDS Integers, Sequences, FiniteSets, TLC

VARIABLES
    pc,      \* control position of the run being modelled
    p,       \* the TradeParams in use, or None
    res,     \* the TradeResult returned by calc_trade, or None
    prev,    \* the TradeResult of the previous calculation, or None
    span,    \* arguments (start, end) of _count_passed_months
    ann,     \* local `ann` of _count_passed_months
    cnt,     \* local `cnt` of _count_passed_months
    ns,      \* the argparse namespace of the command line
    page,    \* what the quote page answered to the last GET, or None
    fetched, \* outcome of the last fetch_bid_ask_yahoo call, or None
    fetches, \* number of GET requests sent
    quote,   \* locals ask, bid of the front end, or None
    err,     \* the exception that ended the run, or None
    status,  \* exit status of the process, -1 while it runs
    loc,     \* locals of interactive_input() read so far
    last,    \* the last line read by input(), or None
    HAS_SCRAPING_LIBS,  \* module global of streamlit_app, or None
    session, \* st.session_state: the keys present and their values, or None
    form,    \* the values of the web form's widgets, or None
    screen,  \* the controls the last script run rendered
    event,   \* the interaction that started the script run, or None
    validation_errors,  \* local validation_errors of the web main()
    origin   \* where the prices of the session came from, or None

calcVars == <<p, res, prev>>
monthsVars == <<span, ann, cnt>>
quoteVars == <<page, fetched, fetches, quote>>
cliVars == <<ns, err, status>>
promptVars == <<loc, last>>
webVars == <<HAS_SCRAPING_LIBS, session, form, screen, event, validation_errors, origin>>
vars == <<pc, calcVars, monthsVars, quoteVars, cliVars, promptVars, webVars>>

None == [none |-> TRUE]

\* the web form is not running
NoWeb ==
    /\ HAS_SCRAPING_LIBS = None /\ session = None /\ form = None
    /\ screen = {} /\ event = None /\ validation_errors = {} /\ origin = None

-----------------------------------------------------------------------------
(* Bounds of the model *)

NumYears == 2      \* the dates of the model lie in 2024 .. 2023 + NumYears
MaxMonth == 4      \* and in the months 1 .. MaxMonth
MaxQty == 3        \* share counts 1 .. MaxQty, besides the worked example's 100

-----------------------------------------------------------------------------
(* datetime.date: a record [y, m, d] of the proleptic Gregorian calendar *)

Years == 2024 .. (2023 + NumYears)
Months == 1 .. MaxMonth
DaysOfMonth == {1, 15, 28, 29, 30, 31}

IsLeap(y) == (y % 4 = 0 /\ y % 100 # 0) \/ y % 400 = 0

DaysInMonth(y, m) ==
    IF m \in {4, 6, 9, 11} THEN 30
    ELSE IF m = 2 THEN (IF IsLeap(y) THEN 29 ELSE 28)
    ELSE 31

IsDate(y, m, d) == m \in 1..12 /\ d >= 1 /\ d <= DaysInMonth(y, m)

MkDate(y, m, d) == [y |-> y, m |-> m, d |-> d]

RECURSIVE DaysBeforeMonth(_, _)
DaysBeforeMonth(y, m) ==
    IF m = 1 THEN 0 ELSE DaysBeforeMonth(y, m - 1) + DaysInMonth(y, m - 1)

\* date.toordinal(): 1 for 0001-01-01
toordinal(dt) ==
    LET y1 == dt.y - 1
    IN  365 * y1 + (y1 \div 4) - (y1 \div 100) + (y1 \div 400)
          + DaysBeforeMonth(dt.y, dt.m) + dt.d

\* date comparison a < b, a <= b
DateLT(a, b) == toordinal(a) < toordinal(b)
DateLE(a, b) == toordinal(a) <= toordinal(b)

\* the dates the model draws inputs from
Dates == {dt \in [y : Years, m : Months, d : DaysOfMonth] : IsDate(dt.y, dt.m, dt.d)}

\* dt + relativedelta(months=+1): next month, the day clamped to its length
relativedelta_months(dt) ==
    LET ny == IF dt.m = 12 THEN dt.y + 1 ELSE dt.y
        nm == IF dt.m = 12 THEN 1 ELSE dt.m + 1
        nd == IF dt.d > DaysInMonth(ny, nm) THEN DaysInMonth(ny, nm) ELSE dt.d
    IN  MkDate(ny, nm, nd)

\* mutant: the end date not counted as a held day
days_exclusive(start, end) == toordinal(end) - toordinal(start)

_days_inclusive(start, end) == toordinal(end) - toordinal(start) + 1

\* the while loop of _count_passed_months, from the state (a, c)
RECURSIVE CountLoop(_, _, _)
CountLoop(a, c, end) ==
    IF DateLE(a, end) THEN CountLoop(relativedelta_months(a), c + 1, end) ELSE c

_count_passed_months(start, end) ==
    CountLoop(relativedelta_months(start), 0, end)

-----------------------------------------------------------------------------
(* DefaultConfig, in the fixed-point units of the model *)

RateScale == 1000           \* loan_rate 0.014 is 14
TaxScale == 100             \* consumption_tax_rate 0.10 is 10
WithholdingScale == 20000   \* withholding rate 0.20315 is 4063
DaysPerYear == 365

LOAN_RATE == 14
CONSUMPTION_TAX_RATE == 10
MANAGEMENT_FEE_PER_CYCLE == 0
WITHHOLDING_TAX_RATE == 4063

-----------------------------------------------------------------------------
(* round(x, 2) of the fraction f = <<num, den>> of a yen, den > 0, in sen *)

\* n / d rounded to the nearest integer, ties to the even neighbour
RoundHalfEven(n, d) ==
    LET q == n \div d
        r == n % d
    IN  IF 2 * r < d THEN q
        ELSE IF 2 * r > d THEN q + 1
        ELSE IF q % 2 = 0 THEN q ELSE q + 1

RECURSIVE GCD(_, _)
GCD(a, b) == IF b = 0 THEN a ELSE GCD(b, a % b)

\* two decimal digits are taken one at a time, the second one rounded
Round2(f) ==
    LET whole == f[1] \div f[2]
        r1 == f[1] % f[2]
        d1 == (10 * r1) \div f[2]
        r2 == (10 * r1) % f[2]
    IN  100 * whole + 10 * d1 + RoundHalfEven(10 * r2, f[2])

-----------------------------------------------------------------------------
(* TradeParams, TradeResult *)

TradeParams(ticker, qty, start, end, ask, bid, dividend, loan_rate, mgmt_fee, spread_on_exit) ==
    [ticker |-> ticker, qty |-> qty, start |-> start, end |-> end,
     ask_price |-> ask, bid_price |-> bid, dividend |-> dividend,
     loan_rate |-> loan_rate,
     consumption_tax_rate |-> CONSUMPTION_TAX_RATE,
     management_fee_per_cycle |-> mgmt_fee,
     withholding_tax_rate |-> WITHHOLDING_TAX_RATE,
     spread_on_exit |-> spread_on_exit]

\* TradeResult.total_pre_tax(), in sen
total_pre_tax(r) ==
    r.dividend_received - r.dividend_adjustment_paid - r.loan_fee
      - r.consumption_tax - r.management_fee - r.entry_spread_cost
      - r.exit_spread_cost

\* x * k / WithholdingScale as <<whole, frac>>: whole + frac / WithholdingScale,
\* 0 <= frac < WithholdingScale
Scaled(x, k) ==
    LET hi == x \div WithholdingScale
        lo == x % WithholdingScale
    IN  <<hi * k + ((lo * k) \div WithholdingScale), (lo * k) % WithholdingScale>>

\* mutant: withholding applied to the dividend net of the adjustment paid
total_post_tax_NetDividendTaxed(r, withholding) ==
    LET net == Scaled(r.dividend_received - r.dividend_adjustment_paid,
                      WithholdingScale - withholding)
    IN  <<net[1] - r.loan_fee - r.consumption_tax
            - r.management_fee - r.entry_spread_cost - r.exit_spread_cost,
          net[2]>>

\* TradeResult.total_post_tax(withholding), in sen, as <<whole, frac>>
total_post_tax(r, withholding) ==
    LET net == Scaled(r.dividend_received, WithholdingScale - withholding)
    IN  <<net[1] - r.dividend_adjustment_paid - r.loan_fee - r.consumption_tax
            - r.management_fee - r.entry_spread_cost - r.exit_spread_cost,
          net[2]>>

-----------------------------------------------------------------------------
(* Calculation engine *)

\* mutant: the tax computed on the loan fee as already rounded to sen
consumption_tax_OnRoundedFee(tp, loan_fee) ==
    <<Round2(loan_fee) * tp.consumption_tax_rate, 100 * TaxScale>>

\* consumption_tax = loan_fee * p.consumption_tax_rate, loan_fee not yet rounded
\* (the rate rate/TaxScale is taken in lowest terms to keep the numbers small)
calc_consumption_tax(tp, loan_fee) ==
    LET g == GCD(tp.consumption_tax_rate, TaxScale)
    IN  <<loan_fee[1] * (tp.consumption_tax_rate \div g), loan_fee[2] * (TaxScale \div g)>>

\* mutant: the adjustment paid net of the withholding on the dividend
dividend_paid_NetOfWithholding(tp) ==
    <<tp.dividend * tp.qty * (WithholdingScale - tp.withholding_tax_rate),
      WithholdingScale>>

\* dividend_paid = p.dividend * p.qty
calc_dividend_paid(tp) == <<tp.dividend * tp.qty, 1>>

calc_trade(tp) ==
    LET days == _days_inclusive(tp.start, tp.end)
        months_passed == _count_passed_months(tp.start, tp.end)
        notional == tp.bid_price * tp.qty
        loan_fee == <<notional * tp.loan_rate * days, RateScale * DaysPerYear>>
        consumption_tax == calc_consumption_tax(tp, loan_fee)
        management_fee == <<tp.management_fee_per_cycle * months_passed, 1>>
        dividend_received == <<tp.dividend * tp.qty, 1>>
        dividend_paid == calc_dividend_paid(tp)
        entry_spread == <<(tp.ask_price - tp.bid_price) * tp.qty, 1>>
        exit_spread == IF tp.spread_on_exit THEN entry_spread ELSE <<0, 1>>
    IN  [loan_fee |-> Round2(loan_fee),
         consumption_tax |-> Round2(consumption_tax),
         management_fee |-> Round2(management_fee),
         dividend_received |-> Round2(dividend_received),
         dividend_adjustment_paid |-> Round2(dividend_paid),
         entry_spread_cost |-> Round2(entry_spread),
         exit_spread_cost |-> Round2(exit_spread)]

-----------------------------------------------------------------------------
(* The engine applied to bounded inputs *)

D(y, m, d) == MkDate(y, m, d)

\* the worked example of the specification
ExampleParams ==
    TradeParams("4751", 100, D(2025, 1, 1), D(2025, 3, 31), 1205, 1195, 50,
                LOAN_RATE, MANAGEMENT_FEE_PER_CYCLE, FALSE)

CalcDates == {D(2024, 2, 1), D(2024, 2, 28), D(2024, 3, 1),
              D(2025, 1, 1), D(2025, 1, 31), D(2025, 3, 31)}
CalcQuantities == 1 .. MaxQty
CalcQuotes == {<<1000, 995>>, <<1205, 1195>>, <<990, 1000>>}
CalcDividends == {0, 50}
CalcLoanRates == {LOAN_RATE, 39}
CalcMgmtFees == {MANAGEMENT_FEE_PER_CYCLE, 110}
CalcTaxRates == {CONSUMPTION_TAX_RATE, 8}

CalcInputs ==
    {ExampleParams} \cup
    {[TradeParams("4751", q, s, e, ab[1], ab[2], dv, lr, mf, sx)
        EXCEPT !.consumption_tax_rate = tr] :
        q \in CalcQuantities, s \in CalcDates, e \in CalcDates, ab \in CalcQuotes,
        dv \in CalcDividends, lr \in CalcLoanRates, mf \in CalcMgmtFees,
        sx \in BOOLEAN, tr \in CalcTaxRates}

CalcInit ==
    /\ pc = "input"
    /\ p \in CalcInputs
    /\ res = None
    /\ prev = None
    /\ span = None /\ ann = None /\ cnt = 0
    /\ ns = None /\ err = None /\ status = -1
    /\ loc = None /\ last = None
    /\ page = None /\ fetched = None /\ fetches = 0 /\ quote = None
    /\ NoWeb

\* res = calc_trade(params)
CalcTrade ==
    /\ pc = "input"
    /\ res' = calc_trade(p)
    /\ pc' = "result"
    /\ UNCHANGED <<p, prev, monthsVars, quoteVars, cliVars, promptVars, webVars>>

\* the same trade calculated again with spread_on_exit switched on
RecalcSpreadOnExit ==
    /\ pc = "result"
    /\ ~p.spread_on_exit
    /\ p' = [p EXCEPT !.spread_on_exit = TRUE]
    /\ prev' = res
    /\ res' = calc_trade(p')
    /\ pc' = "toggled"
    /\ UNCHANGED <<monthsVars, quoteVars, cliVars, promptVars, webVars>>

\* the same trade calculated again with another dividend
RecalcDividend ==
    /\ pc = "result"
    /\ \E dv \in (CalcDividends \cup {7}) \ {p.dividend} :
          p' = [p EXCEPT !.dividend = dv]
    /\ prev' = res
    /\ res' = calc_trade(p')
    /\ pc' = "redividend"
    /\ UNCHANGED <<monthsVars, quoteVars, cliVars, promptVars, webVars>>

CalcNext == CalcTrade \/ RecalcSpreadOnExit \/ RecalcDividend

SpecCalc == CalcInit /\ [][CalcNext]_vars

-----------------------------------------------------------------------------
(* Claims about the calculation engine, checked under SpecCalc *)

Calculated == pc \in {"result", "toggled", "redividend"}

ExampleCalculated == pc = "result" /\ p = ExampleParams

\* C1 as stated: for the worked example calc_trade uses 90 inclusive days and
\* 2 passed months and returns loan_fee 412.36, consumption_tax 41.24,
\* management_fee 0, dividends 5000 and 5000, entry spread 1000, exit spread 0,
\* and total_pre_tax() is -1453.60.
C1_AsStated ==
    ExampleCalculated =>
        /\ _days_inclusive(p.start, p.end) = 90
        /\ _count_passed_months(p.start, p.end) = 2
        /\ res.loan_fee = 41236
        /\ res.consumption_tax = 4124
        /\ res.management_fee = 0
        /\ res.dividend_received = 500000
        /\ res.dividend_adjustment_paid = 500000
        /\ res.entry_spread_cost = 100000
        /\ res.exit_spread_cost = 0
        /\ total_pre_tax(res) = -145360

\* C1 amended: for the worked example calc_trade uses 90 inclusive days and
\* 2 passed months and returns loan_fee 412.52 (119500 * 0.014 * 90 / 365),
\* consumption_tax 41.25, management_fee 0, dividends 5000 and 5000, entry
\* spread 1000, exit spread 0, and total_pre_tax() is -1453.77.
C1_Example ==
    ExampleCalculated =>
        /\ _days_inclusive(p.start, p.end) = 90
        /\ _count_passed_months(p.start, p.end) = 2
        /\ res.loan_fee = 41252
        /\ res.consumption_tax = 4125
        /\ res.management_fee = 0
        /\ res.dividend_received = 500000
        /\ res.dividend_adjustment_paid = 500000
        /\ res.entry_spread_cost = 100000
        /\ res.exit_spread_cost = 0
        /\ total_pre_tax(res) = -145377

C1_Witness == ExampleCalculated /\ res.loan_fee = 41252

\* the period start..end contains 29 February 2024
HasLeapDay(tp) ==
    DateLE(tp.start, D(2024, 2, 29)) /\ DateLE(D(2024, 2, 29), tp.end)

\* C2: for start < end every line item is the 2-decimal rounding of its own
\* formula, each rounded on its own: loan_fee from bid*qty*loan_rate*days/365
\* with days = (end - start) + 1 and 365 also across 29 February; the tax from
\* the unrounded loan fee; the management fee per passed month; both dividend
\* legs from dividend*qty; the entry spread from (ask - bid)*qty; the exit
\* spread equal to the entry spread or 0.  Switching spread_on_exit on changes
\* no other field and lowers total_pre_tax by exactly entry_spread_cost.
C2_LineItems ==
    /\ (Calculated /\ DateLT(p.start, p.end)) =>
          LET days == (toordinal(p.end) - toordinal(p.start)) + 1
              fee == <<p.bid_price * p.qty * p.loan_rate * days, RateScale * 365>>
          IN  /\ res.loan_fee = Round2(fee)
              /\ res.consumption_tax =
                    Round2(<<fee[1] * p.consumption_tax_rate, fee[2] * TaxScale>>)
              /\ res.management_fee =
                    100 * p.management_fee_per_cycle
                        * _count_passed_months(p.start, p.end)
              /\ res.dividend_received = 100 * p.dividend * p.qty
              /\ res.dividend_adjustment_paid = 100 * p.dividend * p.qty
              /\ res.entry_spread_cost = 100 * (p.ask_price - p.bid_price) * p.qty
              /\ res.exit_spread_cost =
                    IF p.spread_on_exit THEN res.entry_spread_cost ELSE 0
    /\ (pc = "toggled" /\ DateLT(p.start, p.end)) =>
          /\ res = [prev EXCEPT !.exit_spread_cost = prev.entry_spread_cost]
          /\ total_pre_tax(res) = total_pre_tax(prev) - prev.entry_spread_cost

C2_Witness ==
    /\ pc = "toggled"
    /\ DateLT(p.start, p.end)
    /\ HasLeapDay(p)
    /\ res.exit_spread_cost > 0
    /\ res.consumption_tax > 0

WithholdingRates == {0, 3000, WITHHOLDING_TAX_RATE, WithholdingScale}

\* x - pair, for a pair <<whole, frac>> as returned by Scaled
Minus(x, pair) ==
    IF pair[2] = 0 THEN <<x - pair[1], 0>>
    ELSE <<x - pair[1] - 1, WithholdingScale - pair[2]>>

\* C3: for every result and every withholding rate w, total_pre_tax() is
\* dividend_received - dividend_adjustment_paid - loan_fee - consumption_tax
\* - management_fee - entry_spread_cost - exit_spread_cost of the rounded
\* fields, and total_post_tax(w) = total_pre_tax() - dividend_received * w;
\* with w = 0 the two totals are equal.
C3_Totals ==
    Calculated =>
        /\ total_pre_tax(res) =
              res.dividend_received - res.dividend_adjustment_paid
                - res.loan_fee - res.consumption_tax - res.management_fee
                - res.entry_spread_cost - res.exit_spread_cost
        /\ \A w \in WithholdingRates :
              total_post_tax(res, w) =
                  Minus(total_pre_tax(res), Scaled(res.dividend_received, w))
        /\ total_post_tax(res, 0) = <<total_pre_tax(res), 0>>

\* the worked example: 5000 * (1 - 0.20315) = 3984.25, post-tax total -2469.52
C3_Witness ==
    /\ ExampleCalculated
    /\ Scaled(res.dividend_received, WithholdingScale - WITHHOLDING_TAX_RATE)
          = <<398425, 0>>
    /\ total_post_tax(res, WITHHOLDING_TAX_RATE) = <<-246952, 0>>

\* C4: dividend_received = dividend_adjustment_paid in every result, and two
\* TradeParams that differ only in dividend give the same total_pre_tax().
C4_DividendSymmetry ==
    /\ Calculated => res.dividend_received = res.dividend_adjustment_paid
    /\ pc = "redividend" => total_pre_tax(res) = total_pre_tax(prev)

C4_Witness ==
    /\ pc = "redividend"
    /\ res.dividend_received # prev.dividend_received
    /\ res.dividend_received > 0

-----------------------------------------------------------------------------
(* _count_passed_months, one loop iteration at a time *)

MonthsInit ==
    /\ pc = "months_call"
    /\ span \in [start : Dates, end : Dates]
    /\ ann = None
    /\ cnt = 0
    /\ p = None /\ res = None /\ prev = None
    /\ ns = None /\ err = None /\ status = -1
    /\ loc = None /\ last = None
    /\ page = None /\ fetched = None /\ fetches = 0 /\ quote = None
    /\ NoWeb

\* cnt = 0; ann = start + relativedelta(months=+1)
MonthsEnter ==
    /\ pc = "months_call"
    /\ cnt' = 0
    /\ ann' = relativedelta_months(span.start)
    /\ pc' = "months_loop"
    /\ UNCHANGED <<calcVars, span, quoteVars, cliVars, promptVars, webVars>>

\* while ann <= end: cnt += 1; ann += relativedelta(months=+1)
MonthsIterate ==
    /\ pc = "months_loop"
    /\ DateLE(ann, span.end)
    /\ cnt' = cnt + 1
    /\ ann' = relativedelta_months(ann)
    /\ UNCHANGED <<pc, calcVars, span, quoteVars, cliVars, promptVars, webVars>>

\* return cnt
MonthsReturn ==
    /\ pc = "months_loop"
    /\ ~DateLE(ann, span.end)
    /\ pc' = "months_returned"
    /\ UNCHANGED <<calcVars, monthsVars, quoteVars, cliVars, promptVars, webVars>>

MonthsNext == MonthsEnter \/ MonthsIterate \/ MonthsReturn

SpecMonths == MonthsInit /\ [][MonthsNext]_vars

-----------------------------------------------------------------------------
(* Claims about _count_passed_months, checked under SpecMonths *)

\* the k-th monthly anniversary of dt: dt + relativedelta(months=+k), the day
\* of dt clamped to the length of the month reached
Anniversary(dt, k) ==
    LET t == (dt.m - 1) + k
        ny == dt.y + (t \div 12)
        nm == (t % 12) + 1
    IN  MkDate(ny, nm, IF dt.d > DaysInMonth(ny, nm) THEN DaysInMonth(ny, nm) ELSE dt.d)

\* the number of monthly anniversaries of start that are <= end
AnniversariesPassed(start, end) ==
    Cardinality({k \in 1 .. 12 * (NumYears + 1) : DateLE(Anniversary(start, k), end)})

\* C5: count_passed_monthly_anniversaries(start, end) returns the number of
\* monthly anniversaries of start that are <= end, each anniversary a true
\* calendar-month step clamped to short months (31 January, 28/29 February,
\* 31 March); it returns 3 for (2025-01-15, 2025-04-15) and 2 for
\* (2025-01-31, 2025-03-31).
C5_AsStated ==
    pc = "months_returned" =>
        /\ cnt = AnniversariesPassed(span.start, span.end)
        /\ (span = [start |-> D(2025, 1, 15), end |-> D(2025, 4, 15)] => cnt = 3)
        /\ (span = [start |-> D(2025, 1, 31), end |-> D(2025, 3, 31)] => cnt = 2)

-----------------------------------------------------------------------------
(* Text: a str is the sequence of its character codes *)

Dash == 45                      \* ord("-")
Digit(k) == 48 + k              \* ord("0") + k
IsDigit(c) == c >= 48 /\ c <= 57

\* the decimal digits of n < 100, zero-padded to two characters or not
TwoDigits(n, pad) ==
    IF n >= 10 THEN <<Digit(n \div 10), Digit(n % 10)>>
    ELSE IF pad THEN <<Digit(0), Digit(n)>>
    ELSE <<Digit(n)>>

FourDigits(n) ==
    <<Digit(n \div 1000), Digit((n \div 100) % 10), Digit((n \div 10) % 10), Digit(n % 10)>>

\* a date as a user types it, YYYY-MM-DD, month and day zero-padded or not
DateText(y, m, d, pad) ==
    FourDigits(y) \o <<Dash>> \o TwoDigits(m, pad) \o <<Dash>> \o TwoDigits(d, pad)

\* str.__lt__: a < b, code point by code point
RECURSIVE StrLess(_, _)
StrLess(a, b) ==
    IF b = <<>> THEN FALSE
    ELSE IF a = <<>> THEN TRUE
    ELSE IF Head(a) # Head(b) THEN Head(a) < Head(b)
    ELSE StrLess(Tail(a), Tail(b))

\* the number a string of digits denotes
RECURSIVE Number(_)
Number(t) == IF t = <<>> THEN 0 ELSE 10 * Number(SubSeq(t, 1, Len(t) - 1)) + (t[Len(t)] - 48)

\* datetime.strptime(t, "%Y-%m-%d").date(): [ok, date], or ok = FALSE for the
\* ValueError of a text that is not a date
strptime(t) ==
    LET ds == {i \in 1 .. Len(t) : t[i] = Dash}
    IN  IF Cardinality(ds) # 2 THEN [ok |-> FALSE]
        ELSE
          LET i == CHOOSE x \in ds : \A z \in ds : x <= z
              j == CHOOSE x \in ds : \A z \in ds : x >= z
              yf == SubSeq(t, 1, i - 1)
              mf == SubSeq(t, i + 1, j - 1)
              df == SubSeq(t, j + 1, Len(t))
          IN  IF \/ Len(yf) # 4 \/ Len(mf) \notin {1, 2} \/ Len(df) \notin {1, 2}
                 \/ \E k \in 1 .. Len(t) : k \notin ds /\ ~IsDigit(t[k])
              THEN [ok |-> FALSE]
              ELSE IF ~IsDate(Number(yf), Number(mf), Number(df))
              THEN [ok |-> FALSE]
              ELSE [ok |-> TRUE, date |-> MkDate(Number(yf), Number(mf), Number(df))]

-----------------------------------------------------------------------------
(* Exceptions *)

Raise(type, msg, line) == [ok |-> FALSE, type |-> type, msg |-> msg, line |-> line]

Contains(msg, part) == \E i \in 1 .. Len(msg) : msg[i] = part

-----------------------------------------------------------------------------
(* Scraper: fetch_bid_ask_yahoo *)

BidLabel == "kaikehai"     \* the label of the bid row
AskLabel == "urikehai"     \* the label of the ask row

\* text.replace(",", "")
RemoveCommas(text) ==
    IF text = "1,195" THEN "1195"
    ELSE IF text = "1,205" THEN "1205"
    ELSE text

\* float(text): [ok, value] or the ValueError
float(text, line) ==
    IF text = "1195" THEN [ok |-> TRUE, value |-> 1195]
    ELSE IF text = "1205" THEN [ok |-> TRUE, value |-> 1205]
    ELSE IF text = "0" THEN [ok |-> TRUE, value |-> 0]
    ELSE Raise("ValueError", <<"could not convert string to float: ", text>>, line)

\* a table row of the quote page: is there a th with the label, is there a td
\* after it, and the td's text
Cell(th, td, text) == [th |-> th, td |-> td, text |-> text]

\* the rows a page can hold for a label whose quote is shown as `text`
Cells(text) == {Cell(FALSE, FALSE, ""), Cell(TRUE, FALSE, ""),
                Cell(TRUE, TRUE, text), Cell(TRUE, TRUE, "---")}

\* what the network and the page can answer to the GET; transport "no_libs"
\* stands for requests / BeautifulSoup not being installed (no GET is sent)
Response(transport, code, bid_cell, ask_cell) ==
    [transport |-> transport, status_code |-> code, bid |-> bid_cell, ask |-> ask_cell]

Responses ==
    {Response(t, "", Cell(FALSE, FALSE, ""), Cell(FALSE, FALSE, "")) :
        t \in {"no_libs", "ReadTimeout", "ConnectionError"}}
    \cup {Response("ok", c, Cell(FALSE, FALSE, ""), Cell(FALSE, FALSE, "")) :
            c \in {"404", "503"}}
    \cup {Response("ok", "200", b, a) : b \in Cells("1,195"), a \in Cells("1,205")}

\* _extract(label)
_extract(label, cell) ==
    IF cell.th /\ cell.td
    THEN float(RemoveCommas(cell.text), 99)
    ELSE Raise("RuntimeError", <<"Could not locate ", label, " on Yahoo page">>, 100)

\* the body of the try statement
FetchTry(ticker, r) ==
    IF r.transport # "ok" THEN Raise("RequestException", <<r.transport>>, 88)
    ELSE IF r.status_code # "200"
    THEN Raise("RuntimeError",
               <<"Failed to fetch Yahoo Finance page: HTTP ", r.status_code>>, 90)
    ELSE LET bid == _extract(BidLabel, r.bid)
             ask == _extract(AskLabel, r.ask)
         IN  IF ~bid.ok THEN bid
             ELSE IF ~ask.ok THEN ask
             ELSE [ok |-> TRUE, ask |-> ask.value, bid |-> bid.value]

\* except (requests.RequestException, ValueError, AttributeError) as e
CaughtTypes == {"RequestException", "ValueError", "AttributeError"}

\* fetch_bid_ask_yahoo(ticker) when the network answers r
fetch_bid_ask_yahoo(ticker, r) ==
    LET body == FetchTry(ticker, r)
    IN  IF r.transport = "no_libs"
        THEN Raise("RuntimeError", <<"requests / BeautifulSoup not installed">>, 82)
        ELSE IF ~body.ok /\ body.type \in CaughtTypes
        THEN Raise("RuntimeError",
                   <<"Failed to fetch bid/ask for ", ticker, ": ">> \o body.msg, 106)
        ELSE body

\* the number of GET requests fetch_bid_ask_yahoo sends when the answer is r
Gets(r) == IF r.transport = "no_libs" THEN 0 ELSE 1

-----------------------------------------------------------------------------
(* CLI: main() with a positional ticker and without --interactive *)

Tickers == {"4751"}

CliDateTexts ==
    {DateText(2025, m, d, pad) : m \in {1, 2, 10}, d \in {1, 30}, pad \in BOOLEAN}

\* which arguments the command line gives; one not given is None in ns
CliGiven ==
    {pos \cup opt :
        pos \in {{"ticker", "qty"}, {"ticker", "qty", "start", "end"},
                 {"ticker", "qty", "start", "end", "dividend"}},
        opt \in {{}, {"ask"}, {"ask", "bid"}}}

\* _parse_args(): the namespace; the value of an argument not given is unused
CliNamespaces ==
    {[ticker |-> t, qty |-> q, start |-> s, end |-> e, dividend |-> 50,
      ask |-> 1205, bid |-> 1195, auto |-> au,
      loan_rate |-> LOAN_RATE, mgmt_fee |-> MANAGEMENT_FEE_PER_CYCLE,
      spread_exit |-> FALSE, given |-> g] :
        t \in Tickers, q \in {-1, 0, 100}, s \in CliDateTexts, e \in CliDateTexts,
        au \in BOOLEAN, g \in CliGiven}

IsNone(a, name) == name \notin a.given

CliInit ==
    /\ pc = "cli_main"
    /\ ns \in {a \in CliNamespaces :
                 "start" \notin a.given =>
                     a.start = DateText(2025, 1, 1, TRUE) /\ a.end = a.start}
    /\ p = None /\ res = None /\ prev = None
    /\ span = None /\ ann = None /\ cnt = 0
    /\ page = None /\ fetched = None /\ fetches = 0 /\ quote = None
    /\ NoWeb
    /\ err = None /\ status = -1
    /\ loc = None /\ last = None

\* the run ends with the exception e: SystemExit(message) or a traceback,
\* both with exit status 1
Die(e) ==
    /\ pc' = "exit"
    /\ err' = e
    /\ status' = 1

\* mutant: only a negative quantity is refused
QtyRefused_Negative(qty) == qty < 0

\* if ns.qty <= 0
QtyRefused(qty) == qty <= 0

\* if ns.start >= ns.end: raise SystemExit; if ns.qty <= 0: raise SystemExit
CliValidate ==
    /\ pc = "cli_main"
    /\ IF IsNone(ns, "start") \/ IsNone(ns, "end")
       THEN Die(Raise("TypeError", <<"'>=' not supported between instances of 'NoneType' and 'NoneType'">>, 226))
       ELSE IF ~StrLess(ns.start, ns.end)
       THEN Die(Raise("SystemExit", <<"Start date must be before end date">>, 227))
       ELSE IF QtyRefused(ns.qty)
       THEN Die(Raise("SystemExit", <<"Quantity must be positive">>, 230))
       ELSE pc' = "cli_prices" /\ UNCHANGED <<err, status>>
    /\ UNCHANGED <<calcVars, monthsVars, quoteVars, ns, promptVars, webVars>>

\* if ns.auto: ask, bid = fetch_bid_ask_yahoo(ns.ticker), SystemExit on RuntimeError
CliFetch ==
    /\ pc = "cli_prices"
    /\ ns.auto
    /\ \E r \in Responses :
          LET f == fetch_bid_ask_yahoo(ns.ticker, r)
          IN  /\ page' = r
              /\ fetched' = f
              /\ fetches' = fetches + Gets(r)
              /\ IF f.ok
                 THEN /\ quote' = [ask |-> f.ask, bid |-> f.bid]
                      /\ pc' = "cli_params"
                      /\ UNCHANGED <<err, status>>
                 ELSE /\ Die(Raise("SystemExit", <<"Failed to fetch prices: ">> \o f.msg, 236))
                      /\ UNCHANGED quote
    /\ UNCHANGED <<calcVars, monthsVars, ns, promptVars, webVars>>

\* else: SystemExit unless both --ask and --bid are given; ask, bid = ns.ask, ns.bid
CliManual ==
    /\ pc = "cli_prices"
    /\ ~ns.auto
    /\ IF IsNone(ns, "ask") \/ IsNone(ns, "bid")
       THEN /\ Die(Raise("SystemExit", <<"Either --auto or both --ask and --bid must be supplied.">>, 239))
            /\ UNCHANGED quote
       ELSE /\ quote' = [ask |-> ns.ask, bid |-> ns.bid]
            /\ pc' = "cli_params"
            /\ UNCHANGED <<err, status>>
    /\ UNCHANGED <<calcVars, monthsVars, page, fetched, fetches, ns, promptVars, webVars>>

\* params = TradeParams(..., start=strptime(ns.start), end=strptime(ns.end), ...)
CliParams ==
    /\ pc = "cli_params"
    /\ LET s == strptime(ns.start)
           e == strptime(ns.end)
       IN  IF ~s.ok \/ ~e.ok
           THEN /\ Die(Raise("ValueError", <<"time data does not match format">>, 245))
                /\ UNCHANGED p
           ELSE /\ p' = TradeParams(ns.ticker, ns.qty, s.date, e.date, quote.ask,
                                    quote.bid, ns.dividend, ns.loan_rate,
                                    ns.mgmt_fee, ns.spread_exit)
                /\ pc' = "cli_calc"
                /\ UNCHANGED <<err, status>>
    /\ UNCHANGED <<res, prev, monthsVars, quoteVars, ns, promptVars, webVars>>

\* res = calc_trade(params), then the summary is printed
CliCalc ==
    /\ pc = "cli_calc"
    /\ IF IsNone(ns, "dividend")
       THEN /\ Die(Raise("TypeError", <<"unsupported operand type(s) for *: 'NoneType' and 'int'">>, 175))
            /\ UNCHANGED res
       ELSE /\ res' = calc_trade(p)
            /\ pc' = "exit"
            /\ status' = 0
            /\ UNCHANGED err
    /\ UNCHANGED <<p, prev, monthsVars, quoteVars, ns, promptVars, webVars>>

CliNext == CliValidate \/ CliFetch \/ CliManual \/ CliParams \/ CliCalc

SpecCli == CliInit /\ [][CliNext]_vars

-----------------------------------------------------------------------------
(* Claims about the non-interactive CLI, checked under SpecCli *)

\* C6: calc_trade is never invoked with end <= start: every TradeParams that
\* reaches calc_trade has start < end (as calendar dates) and an inclusive day
\* count >= 2.
C6_AsStated ==
    pc = "cli_calc" =>
        /\ DateLT(p.start, p.end)
        /\ _days_inclusive(p.start, p.end) >= 2

FetchFailed == fetched # None /\ ~fetched.ok

\* C7: a quote-fetch failure is never fatal to the calculation: it is caught
\* and the caller goes on to manual entry of ask and bid, so the run is not
\* ended by the failure.
C7_AsStated == FetchFailed => ~(pc = "exit" /\ status # 0)

QtyNotPositive == ~IsNone(ns, "qty") /\ ns.qty <= 0
PricesMissing == ~ns.auto /\ (IsNone(ns, "ask") \/ IsNone(ns, "bid"))

Cause(r) ==
    IF r.transport = "no_libs" THEN "requests / BeautifulSoup not installed"
    ELSE IF r.transport # "ok" THEN r.transport
    ELSE IF r.status_code # "200" THEN r.status_code
    ELSE IF ~(r.bid.th /\ r.bid.td) THEN BidLabel
    ELSE IF ~float(RemoveCommas(r.bid.text), 0).ok THEN RemoveCommas(r.bid.text)
    ELSE IF ~(r.ask.th /\ r.ask.td) THEN AskLabel
    ELSE RemoveCommas(r.ask.text)

\* C9: every failure of fetch_bid_ask_yahoo(ticker) is reported as a
\* RuntimeError whose message contains both the ticker and the underlying
\* cause.
C9_AsStated ==
    FetchFailed =>
        /\ fetched.type = "RuntimeError"
        /\ Contains(fetched.msg, ns.ticker)
        /\ Contains(fetched.msg, Cause(page))

-----------------------------------------------------------------------------
(* Interactive mode: interactive_input(), one prompt at a time *)

\* an answer is the line typed, already stripped; dates are typed as DateText
\* or as the text "abc"
Abc == <<97, 98, 99>>

\* int(text): [ok, value] or the ValueError
int(text, line) ==
    IF text = "100" THEN [ok |-> TRUE, value |-> 100]
    ELSE IF text = "0" THEN [ok |-> TRUE, value |-> 0]
    ELSE IF text = "-5" THEN [ok |-> TRUE, value |-> -5]
    ELSE Raise("ValueError", <<"invalid literal for int() with base 10: ", text>>, line)

\* float(text) of an amount in yen: [ok, value] or the ValueError
float_yen(text, line) ==
    IF text = "50" THEN [ok |-> TRUE, value |-> 50]
    ELSE IF text = "110" THEN [ok |-> TRUE, value |-> 110]
    ELSE IF text = "-1" THEN [ok |-> TRUE, value |-> -1]
    ELSE IF text = "-110" THEN [ok |-> TRUE, value |-> -110]
    ELSE float(text, line)

\* float(text) of a rate, in units of 1/RateScale: [ok, value] or the ValueError
float_rate(text, line) ==
    IF text = "0.014" THEN [ok |-> TRUE, value |-> 14]
    ELSE IF text = "0.039" THEN [ok |-> TRUE, value |-> 39]
    ELSE IF text = "-0.001" THEN [ok |-> TRUE, value |-> -1]
    ELSE Raise("ValueError", <<"could not convert string to float: ", text>>, line)

\* str.lower()
lower(text) == IF text = "Y" THEN "y" ELSE IF text = "N" THEN "n" ELSE text

validate_ticker(text) == text \in {"4751", "6758"}     \* re.match(r'^\d{4}$', text)
validate_date(text) == strptime(text).ok
validate_positive_int(text) == int(text, 315).ok /\ int(text, 315).value > 0
validate_positive_float(text) ==
    float_yen(text, 323).ok /\ float_yen(text, 323).value >= 0
validate_yes_no(text) == lower(text) \in {"y", "yes", "n", "no"}
IsYes(text) == lower(text) \in {"y", "yes"}

TickerAnswers == {"4751", "475", "47511", "abcd"}
QtyAnswers == {"100", "0", "-5", "abc"}
StartAnswers == {DateText(2025, 1, 1, TRUE), DateText(2025, 1, 31, FALSE),
                 DateText(2025, 2, 30, TRUE), Abc}
EndAnswers == {DateText(2025, 3, 31, TRUE), DateText(2025, 1, 1, FALSE),
               DateText(2025, 1, 31, TRUE), DateText(2025, 2, 30, TRUE), Abc}
DividendAnswers == {"50", "0", "-1", "abc"}
YesNoAnswers == {"y", "N", "maybe"}
AskAnswers == {"1205", "0", "-1", "abc"}
BidAnswers == {"1195", "0", "-1", "abc"}
LoanRateAnswers == {"", "0.039", "-0.001", "abc"}
MgmtFeeAnswers == {"", "110", "-110", "abc"}
SpreadExitAnswers == {"", "y", "N", "maybe"}

\* the prompts read through get_input_with_validation, and those read by a
\* bare input()
ValidatedPrompts == {"i_ticker", "i_qty", "i_start", "i_end", "i_dividend",
                     "i_auto", "i_ask", "i_bid"}
BarePrompts == {"i_loan_rate", "i_mgmt_fee", "i_spread_exit"}

NoLocals ==
    [ticker |-> "", qty |-> 0, start |-> None, end |-> None, dividend |-> 0,
     auto_fetch |-> FALSE, ask |-> 0, loan_rate |-> 0, mgmt_fee |-> 0]

InteractiveInit ==
    /\ pc = "i_ticker"
    /\ loc = NoLocals
    /\ last = None
    /\ ns = None /\ err = None /\ status = -1
    /\ p = None /\ res = None /\ prev = None
    /\ span = None /\ ann = None /\ cnt = 0
    /\ page = None /\ fetched = None /\ fetches = 0 /\ quote = None
    /\ NoWeb

PromptFrame == UNCHANGED <<res, prev, monthsVars, ns, webVars>>
NoFetch == UNCHANGED <<page, fetched, fetches>>

\* the answer a passes the validator: the local is set, the next prompt follows
Accept(field, value, next, a) ==
    /\ loc' = [loc EXCEPT ![field] = value]
    /\ pc' = next
    /\ last' = a
    /\ UNCHANGED <<p, quote, err, status>>

\* get_input_with_validation: print(error_msg) and prompt again
Reject(a) ==
    /\ last' = a
    /\ UNCHANGED <<pc, p, loc, quote, err, status>>

AskTicker ==
    /\ pc = "i_ticker"
    /\ \E a \in TickerAnswers :
          IF validate_ticker(a) THEN Accept("ticker", a, "i_qty", a) ELSE Reject(a)
    /\ PromptFrame /\ NoFetch

AskQty ==
    /\ pc = "i_qty"
    /\ \E a \in QtyAnswers :
          IF validate_positive_int(a)
          THEN Accept("qty", int(a, 353).value, "i_start", a)
          ELSE Reject(a)
    /\ PromptFrame /\ NoFetch

AskStart ==
    /\ pc = "i_start"
    /\ \E a \in StartAnswers :
          IF validate_date(a)
          THEN Accept("start", strptime(a).date, "i_end", a)
          ELSE Reject(a)
    /\ PromptFrame /\ NoFetch

\* while True: end = ...; if end > start: break
AskEnd ==
    /\ pc = "i_end"
    /\ \E a \in EndAnswers :
          IF validate_date(a) /\ DateLT(loc.start, strptime(a).date)
          THEN Accept("end", strptime(a).date, "i_dividend", a)
          ELSE Reject(a)
    /\ PromptFrame /\ NoFetch

AskDividend ==
    /\ pc = "i_dividend"
    /\ \E a \in DividendAnswers :
          IF validate_positive_float(a)
          THEN Accept("dividend", float_yen(a, 381).value, "i_auto", a)
          ELSE Reject(a)
    /\ PromptFrame /\ NoFetch

AskAutoFetch ==
    /\ pc = "i_auto"
    /\ \E a \in YesNoAnswers :
          IF validate_yes_no(a)
          THEN Accept("auto_fetch", IsYes(a), IF IsYes(a) THEN "i_fetch" ELSE "i_ask", a)
          ELSE Reject(a)
    /\ PromptFrame /\ NoFetch

\* if auto_fetch: ask, bid = fetch_bid_ask_yahoo(ticker); on RuntimeError the
\* failure is printed and auto_fetch = False
InteractiveFetch ==
    /\ pc = "i_fetch"
    /\ \E r \in Responses :
          LET f == fetch_bid_ask_yahoo(loc.ticker, r)
          IN  /\ page' = r
              /\ fetched' = f
              /\ fetches' = fetches + Gets(r)
              /\ IF f.ok
                 THEN /\ quote' = [ask |-> f.ask, bid |-> f.bid]
                      /\ pc' = "i_loan_rate"
                      /\ UNCHANGED loc
                 ELSE /\ loc' = [loc EXCEPT !.auto_fetch = FALSE]
                      /\ pc' = "i_ask"
                      /\ UNCHANGED quote
    /\ UNCHANGED <<p, last, err, status>>
    /\ PromptFrame

AskAsk ==
    /\ pc = "i_ask"
    /\ \E a \in AskAnswers :
          IF validate_positive_float(a)
          THEN Accept("ask", float_yen(a, 406).value, "i_bid", a)
          ELSE Reject(a)
    /\ PromptFrame /\ NoFetch

AskBid ==
    /\ pc = "i_bid"
    /\ \E a \in BidAnswers :
          IF validate_positive_float(a)
          THEN /\ quote' = [ask |-> loc.ask, bid |-> float_yen(a, 413).value]
               /\ pc' = "i_loan_rate"
               /\ last' = a
               /\ UNCHANGED <<p, loc, err, status>>
          ELSE Reject(a)
    /\ PromptFrame /\ NoFetch

\* loan_rate = float(loan_rate_input) if loan_rate_input else DefaultConfig.LOAN_RATE
AskLoanRate ==
    /\ pc = "i_loan_rate"
    /\ \E a \in LoanRateAnswers :
          /\ last' = a
          /\ IF a = ""
             THEN /\ loc' = [loc EXCEPT !.loan_rate = LOAN_RATE]
                  /\ pc' = "i_mgmt_fee"
                  /\ UNCHANGED <<err, status>>
             ELSE IF float_rate(a, 419).ok
             THEN /\ loc' = [loc EXCEPT !.loan_rate = float_rate(a, 419).value]
                  /\ pc' = "i_mgmt_fee"
                  /\ UNCHANGED <<err, status>>
             ELSE Die(float_rate(a, 419)) /\ UNCHANGED loc
    /\ UNCHANGED <<p, quote>>
    /\ PromptFrame /\ NoFetch

\* mgmt_fee = float(mgmt_fee_input) if mgmt_fee_input else DefaultConfig.MANAGEMENT_FEE_PER_CYCLE
AskMgmtFee ==
    /\ pc = "i_mgmt_fee"
    /\ \E a \in MgmtFeeAnswers :
          /\ last' = a
          /\ IF a = ""
             THEN /\ loc' = [loc EXCEPT !.mgmt_fee = MANAGEMENT_FEE_PER_CYCLE]
                  /\ pc' = "i_spread_exit"
                  /\ UNCHANGED <<err, status>>
             ELSE IF float_yen(a, 422).ok
             THEN /\ loc' = [loc EXCEPT !.mgmt_fee = float_yen(a, 422).value]
                  /\ pc' = "i_spread_exit"
                  /\ UNCHANGED <<err, status>>
             ELSE Die(float_yen(a, 422)) /\ UNCHANGED loc
    /\ UNCHANGED <<p, quote>>
    /\ PromptFrame /\ NoFetch

\* spread_exit = ... in ['y', 'yes'] if spread_exit_input else False;
\* return TradeParams(...)
AskSpreadExit ==
    /\ pc = "i_spread_exit"
    /\ \E a \in SpreadExitAnswers :
          /\ last' = a
          /\ p' = TradeParams(loc.ticker, loc.qty, loc.start, loc.end, quote.ask,
                              quote.bid, loc.dividend, loc.loan_rate, loc.mgmt_fee,
                              IF a = "" THEN FALSE ELSE IsYes(a))
    /\ pc' = "i_calc"
    /\ UNCHANGED <<loc, quote, err, status>>
    /\ PromptFrame /\ NoFetch

\* end of input at a prompt: get_input_with_validation prints a notice and
\* calls sys.exit(0); a bare input() lets the EOFError through
EndOfInput ==
    /\ pc \in ValidatedPrompts \cup BarePrompts
    /\ IF pc \in ValidatedPrompts
       THEN pc' = "exit" /\ status' = 0 /\ UNCHANGED err
       ELSE Die(Raise("EOFError", <<"EOF when reading a line">>, 418))
    /\ UNCHANGED <<p, loc, last, quote>>
    /\ PromptFrame /\ NoFetch

\* main: res = calc_trade(params), then the summary is printed
InteractiveCalc ==
    /\ pc = "i_calc"
    /\ res' = calc_trade(p)
    /\ pc' = "exit"
    /\ status' = 0
    /\ UNCHANGED <<p, prev, monthsVars, quoteVars, ns, err, promptVars, webVars>>

InteractiveNext ==
    \/ AskTicker \/ AskQty \/ AskStart \/ AskEnd \/ AskDividend \/ AskAutoFetch
    \/ InteractiveFetch \/ AskAsk \/ AskBid \/ AskLoanRate \/ AskMgmtFee
    \/ AskSpreadExit \/ EndOfInput \/ InteractiveCalc

SpecInteractive == InteractiveInit /\ [][InteractiveNext]_vars

-----------------------------------------------------------------------------
(* Claims about the interactive mode, checked under SpecInteractive *)

\* C10: in interactive mode every non-conforming answer to any prompt (the
\* optional loan rate, management fee and exit-spread yes/no included) is
\* rejected by re-prompting the same field: no malformed or negative answer
\* ends the program with an error or is carried into the TradeParams passed
\* to calc_trade.
C10_AsStated ==
    /\ ~(pc = "exit" /\ status # 0 /\ err.type = "ValueError")
    /\ pc = "i_calc" =>
          /\ p.qty > 0
          /\ p.dividend >= 0
          /\ p.ask_price >= 0
          /\ p.bid_price >= 0
          /\ p.loan_rate >= 0
          /\ p.management_fee_per_cycle >= 0
          /\ last = "" \/ validate_yes_no(last)

-----------------------------------------------------------------------------
(* Web form: streamlit_app.main().  The framework runs the script from the *)
(* top on every interaction with a widget; st.session_state outlives the   *)
(* runs of one browser session.                                             *)

MaxFetches == 2    \* GET requests sent in one browser session

\* the options of the price_method radio, in order; index=0 is the default
PriceMethods == <<"Yahoo! Finance", "alternative source", "manual input", "mock price">>
Yahoo == PriceMethods[1]
Alternative == PriceMethods[2]
Manual == PriceMethods[3]
Mock == PriceMethods[4]

DefaultAsk == 1000     \* st.session_state.get('ask_price', 1000.0)
DefaultBid == 995      \* st.session_state.get('bid_price', 995.0)
DefaultQty == 100      \* the qty widget, left at its value
DefaultDividend == 50  \* the dividend widget, left at its value

\* fetch_price_mock(ticker): (ask, bid)
fetch_price_mock(ticker) ==
    IF ticker = "4751" THEN <<1205, 1195>>
    ELSE IF ticker = "6758" THEN <<15100, 14950>>
    ELSE IF ticker = "7974" THEN <<8520, 8480>>
    ELSE IF ticker = "8411" THEN <<4215, 4185>>
    ELSE IF ticker = "9983" THEN <<9850, 9750>>
    ELSE <<1000, 995>>

\* base_prices.get(ticker, 1000.0)
base_price(ticker) ==
    IF ticker = "4751" THEN 1200
    ELSE IF ticker = "6758" THEN 15000
    ELSE IF ticker = "7974" THEN 8500
    ELSE IF ticker = "8411" THEN 4200
    ELSE IF ticker = "9983" THEN 9800
    ELSE 1000

\* fetch_price_alternative(ticker) when random.uniform(-0.05, 0.05) returns
\* the fraction v = <<n, d>>: (ask, bid) in sen,
\* current_price = base * (1 + v), spread = current_price * 0.001,
\* ask = round(current_price + spread/2, 2), bid = round(current_price - spread/2, 2)
fetch_price_alternative(ticker, v) ==
    LET current == <<base_price(ticker) * (v[2] + v[1]), v[2]>>
    IN  <<Round2(<<current[1] * 2001, current[2] * 2000>>),
          Round2(<<current[1] * 1999, current[2] * 2000>>)>>

\* the outcomes of random.uniform the model draws from
Variations == {<<0, 1>>, <<-1, 21>>, <<1, 49>>}

\* st.session_state as far as the script uses it: the keys present, and the
\* value of each (0 for a key that is absent)
PriceKeys == {"ask_price", "bid_price"}
NoSession == [keys |-> {}, ask_price |-> 0, bid_price |-> 0]

\* st.session_state.get(key, default)
session_get(s, key, default) == IF key \in s.keys THEN s[key] ELSE default

\* st.session_state.<key> = value
session_set(s, key, value) == [s EXCEPT !.keys = @ \cup {key}, ![key] = value]

\* del st.session_state.<key>
session_del(s, key) == [s EXCEPT !.keys = @ \ {key}, ![key] = 0]

\* mutant: only the ask price is stored
store_prices_AskOnly(s, ask, bid) == session_set(s, "ask_price", ask)

\* st.session_state.ask_price = ask_price; st.session_state.bid_price = bid_price
\* (after a fetch, lines 162-163, 174-175, 184-185, and after the manual
\* inputs, lines 205-206)
store_prices(s, ask, bid) ==
    session_set(session_set(s, "ask_price", ask), "bid_price", bid)

\* mutant: the reset button deletes the ask price only
reset_prices_AskOnly(s) == session_del(s, "ask_price")

\* the reset button: both keys are deleted if present
reset_prices(s) == session_del(session_del(s, "ask_price"), "bid_price")

\* not ticker or len(ticker) != 4 or not ticker.isdigit()
ticker_invalid(ticker) == ticker \notin {"4751", "8411"}

WebTickers == {"4751", "8411", "47"}
ManualPrices == {0, 1195, 1205}

\* default_end: today.replace(month=today.month+1), on ValueError from day 28
default_end(today) ==
    IF today.m < 12
    THEN IF IsDate(today.y, today.m + 1, today.d)
         THEN MkDate(today.y, today.m + 1, today.d)
         ELSE MkDate(today.y, today.m + 1, 28)
    ELSE MkDate(today.y + 1, 1, today.d)

Todays == {D(2025, 1, 31)}
WebEndDates == {D(2025, 1, 1), D(2025, 2, 28)}

\* the answers of the network to the GET of a run of the web form, where
\* requests and BeautifulSoup are installed
WebResponses ==
    {r \in Responses :
        /\ r.transport \in {"ok", "ReadTimeout"}
        /\ r.status_code # "503"
        /\ r.bid.th = r.bid.td
        /\ r.ask.th = r.ask.td}

WebInit ==
    /\ pc = "web_start"
    /\ HAS_SCRAPING_LIBS \in BOOLEAN
    /\ session = NoSession
    /\ \E today \in Todays :
          form = [ticker |-> "4751", price_method |-> PriceMethods[1],
                  start_date |-> today, end_date |-> default_end(today)]
    /\ screen = {}
    /\ event = [kind |-> "none"]
    /\ validation_errors = {}
    /\ origin = [source |-> "none", ticker |-> ""]
    /\ p = None /\ res = None /\ prev = None
    /\ span = None /\ ann = None /\ cnt = 0
    /\ ns = None /\ err = None /\ status = -1
    /\ loc = None /\ last = None
    /\ page = None /\ fetched = None /\ fetches = 0 /\ quote = None

\* st.number_input(..., min_value=0.0, value=st.session_state.get(key, default)):
\* what the user typed into the widget, else `value`
number_input(s, key, default, edit) ==
    IF edit.key = key THEN edit.value ELSE session_get(s, key, default)

NoEdit == [key |-> "", value |-> 0]
NotFetched == [ok |-> FALSE]
NoOrigin == [source |-> "none", ticker |-> ""]
NoEvent == [kind |-> "none"]      \* no script run is under way

\* the sidebar of one script run (lines 82-247): `kind` is the interaction that
\* started the run, f the widget values, got the outcome of the quote source
\* when its button was pressed (NotFetched otherwise, and a failure is caught
\* and shown), edit the price the user typed
WebSidebar(kind, f, got, edit) ==
    LET s1 == IF got.ok THEN store_prices(session, got.ask, got.bid) ELSE session
        o1 == IF got.ok THEN [source |-> kind, ticker |-> f.ticker] ELSE origin
        buttons ==
            (IF f.price_method = Yahoo /\ HAS_SCRAPING_LIBS THEN {"yahoo_button"} ELSE {})
            \cup (IF f.price_method = Alternative THEN {"alternative_button"} ELSE {})
            \cup (IF f.price_method = Mock THEN {"mock_button"} ELSE {})
    IN  /\ form' = f
        /\ p' = None
        /\ res' = None
        /\ validation_errors' = {}
        /\ IF f.price_method = Manual \/ "ask_price" \notin s1.keys
           THEN LET ask_price == number_input(s1, "ask_price", DefaultAsk, edit)
                    bid_price == number_input(s1, "bid_price", DefaultBid, edit)
                IN  /\ session' = store_prices(s1, ask_price, bid_price)
                    /\ quote' = [ask |-> ask_price, bid |-> bid_price]
                    /\ origin' = [source |-> "manual", ticker |-> f.ticker]
                    /\ screen' = buttons \cup {"price_inputs"}
                    /\ err' = None
                    /\ pc' = "web_validate"
           ELSE IF "bid_price" \notin s1.keys
           THEN \* bid_price = st.session_state.bid_price ends the run
                /\ session' = s1
                /\ quote' = None
                /\ origin' = o1
                /\ screen' = buttons
                /\ err' = Raise("AttributeError", <<"st.session_state has no attribute ", "bid_price">>, 209)
                /\ pc' = "web_idle"
           ELSE /\ quote' = [ask |-> s1.ask_price, bid |-> s1.bid_price]
                /\ screen' = buttons \cup {"reset_button"}
                /\ err' = None
                /\ IF kind = "reset"
                   THEN \* del both keys; st.rerun()
                        /\ session' = reset_prices(s1)
                        /\ origin' = NoOrigin
                        /\ pc' = "web_rerun"
                   ELSE /\ session' = s1
                        /\ origin' = o1
                        /\ pc' = "web_validate"
        /\ event' = IF pc' = "web_idle" THEN NoEvent ELSE [kind |-> kind]
        /\ UNCHANGED <<HAS_SCRAPING_LIBS, prev, monthsVars, ns, status, promptVars>>

\* no GET is sent in this run
NoQuoteSource == UNCHANGED <<page, fetched, fetches>>

\* the first run of a browser session, and the run st.rerun() asks for
WebOpen ==
    /\ pc \in {"web_start", "web_rerun"}
    /\ WebSidebar(IF pc = "web_start" THEN "open" ELSE "rerun", form, NotFetched, NoEdit)
    /\ NoQuoteSource

\* the user edits the ticker text_input
WebEditTicker ==
    /\ pc = "web_idle"
    /\ \E t \in WebTickers \ {form.ticker} :
          WebSidebar("ticker", [form EXCEPT !.ticker = t], NotFetched, NoEdit)
    /\ NoQuoteSource

\* the user picks another option of the price_method radio
WebSelectMethod ==
    /\ pc = "web_idle"
    /\ \E i \in 1 .. Len(PriceMethods) :
          /\ PriceMethods[i] # form.price_method
          /\ WebSidebar("method", [form EXCEPT !.price_method = PriceMethods[i]],
                        NotFetched, NoEdit)
    /\ NoQuoteSource

\* the user picks another end date
WebEditEndDate ==
    /\ pc = "web_idle"
    /\ \E e \in WebEndDates \ {form.end_date} :
          WebSidebar("end_date", [form EXCEPT !.end_date = e], NotFetched, NoEdit)
    /\ NoQuoteSource

\* the user types a price into one of the two number_inputs of the last run
WebEditPrice ==
    /\ pc = "web_idle"
    /\ "price_inputs" \in screen
    /\ \E k \in PriceKeys, v \in ManualPrices :
          /\ v # session[k]
          /\ WebSidebar("edit", form, NotFetched, [key |-> k, value |-> v])
    /\ NoQuoteSource

\* the Yahoo button: ask_price, bid_price = fetch_bid_ask_yahoo(ticker),
\* except Exception: st.error
WebPressYahoo ==
    /\ pc = "web_idle"
    /\ "yahoo_button" \in screen
    /\ fetches < MaxFetches
    /\ \E r \in WebResponses :
          LET f == fetch_bid_ask_yahoo(form.ticker, r)
          IN  /\ page' = r
              /\ fetched' = f
              /\ fetches' = fetches + Gets(r)
              /\ WebSidebar("yahoo", form, f, NoEdit)

\* the button of the alternative source; the model keeps quotes in whole yen
\* and draws the outcomes of random.uniform that give such quotes
WebPressAlternative ==
    /\ pc = "web_idle"
    /\ "alternative_button" \in screen
    /\ \E v \in Variations :
          LET q == fetch_price_alternative(form.ticker, v)
              f == [ok |-> TRUE, ask |-> q[1] \div 100, bid |-> q[2] \div 100]
          IN  /\ q[1] % 100 = 0
              /\ q[2] % 100 = 0
              /\ WebSidebar("alternative", form, f, NoEdit)
    /\ NoQuoteSource

\* the button of the mock prices
WebPressMock ==
    /\ pc = "web_idle"
    /\ "mock_button" \in screen
    /\ LET q == fetch_price_mock(form.ticker)
           f == [ok |-> TRUE, ask |-> q[1], bid |-> q[2]]
       IN  WebSidebar("mock", form, f, NoEdit)
    /\ NoQuoteSource

\* the reset button
WebPressReset ==
    /\ pc = "web_idle"
    /\ "reset_button" \in screen
    /\ WebSidebar("reset", form, NotFetched, NoEdit)
    /\ NoQuoteSource

\* the calculation button
WebPressCalc ==
    /\ pc = "web_idle"
    /\ "calc_button" \in screen
    /\ WebSidebar("calc", form, NotFetched, NoEdit)
    /\ NoQuoteSource

\* lines 250-286: the validation; then, when the calculation button was
\* pressed, params = TradeParams(...)
WebValidate ==
    /\ pc = "web_validate"
    /\ LET errors ==
               (IF ~DateLT(form.start_date, form.end_date)
                THEN {"end date must be after start date"} ELSE {})
               \cup (IF ticker_invalid(form.ticker)
                     THEN {"ticker must be 4 digits"} ELSE {})
               \cup (IF PriceKeys \subseteq session.keys
                     THEN {} ELSE {"fetch or enter prices"})
       IN  /\ validation_errors' = errors
           /\ IF errors # {}
              THEN pc' = "web_idle" /\ UNCHANGED <<p, screen>>
              ELSE /\ screen' = screen \cup {"calc_button"}
                   /\ IF event.kind = "calc"
                      THEN /\ p' = TradeParams(form.ticker, DefaultQty, form.start_date,
                                               form.end_date, session.ask_price,
                                               session.bid_price, DefaultDividend,
                                               LOAN_RATE, MANAGEMENT_FEE_PER_CYCLE, FALSE)
                           /\ pc' = "web_calc"
                      ELSE pc' = "web_idle" /\ UNCHANGED p
    /\ event' = IF pc' = "web_idle" THEN NoEvent ELSE event
    /\ UNCHANGED <<res, prev, monthsVars, quoteVars, cliVars, promptVars>>
    /\ UNCHANGED <<HAS_SCRAPING_LIBS, session, form, origin>>

\* result = calc_trade(params); display_results(params, result), which divides
\* by params.bid_price; except Exception: st.error
WebCalc ==
    /\ pc = "web_calc"
    /\ res' = calc_trade(p)
    /\ err' = IF p.bid_price = 0
              THEN Raise("ZeroDivisionError", <<"float division by zero">>, 333)
              ELSE None
    /\ pc' = "web_idle"
    /\ event' = NoEvent
    /\ UNCHANGED <<p, prev, monthsVars, quoteVars, ns, status, promptVars>>
    /\ UNCHANGED <<HAS_SCRAPING_LIBS, session, form, screen, validation_errors, origin>>

WebNext ==
    \/ WebOpen \/ WebEditTicker \/ WebSelectMethod \/ WebEditEndDate
    \/ WebEditPrice \/ WebPressYahoo \/ WebPressAlternative \/ WebPressMock
    \/ WebPressReset \/ WebPressCalc \/ WebValidate \/ WebCalc

SpecWeb == WebInit /\ [][WebNext]_vars

-----------------------------------------------------------------------------
(* The three front ends side by side: a run is one of the command line, the *)
(* interactive prompts, or a browser session of the web form                *)

FrontEndsInit == CliInit \/ InteractiveInit \/ WebInit

FrontEndsNext == CliNext \/ InteractiveNext \/ WebNext

SpecFrontEnds == FrontEndsInit /\ [][FrontEndsNext]_vars

\* the front end is about to call calc_trade(p)
CalcInvoked == pc \in {"cli_calc", "i_calc", "web_calc"}

-----------------------------------------------------------------------------
(* Claims about the prices the front ends use, checked under SpecFrontEnds *)

\* C11: every TradeParams passed to calc_trade has ask_price > 0 and
\* bid_price > 0: a zero or negative quote is rejected before the calculation,
\* so the division by bid_price * qty in the web result display never fails.
C11_AsStated ==
    /\ CalcInvoked => (p.ask_price > 0 /\ p.bid_price > 0)
    /\ ~(err # None /\ err.type = "ZeroDivisionError")

\* the prices the front end would calculate with: the session prices of the
\* web form, the locals ask, bid of the command line and the prompts
PricesInUse ==
    IF session # None
    THEN [keys |-> session.keys, ask |-> session.ask_price, bid |-> session.bid_price]
    ELSE IF quote # None
    THEN [keys |-> PriceKeys, ask |-> quote.ask, bid |-> quote.bid]
    ELSE [keys |-> {}, ask |-> 0, bid |-> 0]

\* this step calls fetch_bid_ask_yahoo
FetchAttempt == fetches' # fetches \/ fetched' # fetched

\* C12: a quote fetch is attempted at most once per user request (one GET, no
\* retry), and a fetched value is never partially applied: after an attempt
\* either both ask and bid of that fetch are the prices in use, or (on any
\* failure) the prices in use are exactly what they were before the attempt.
C12_FetchOnceAllOrNothing ==
    /\ [](session = None => fetches <= 1)
    /\ [][FetchAttempt =>
            /\ fetches' <= fetches + 1
            /\ session # None => (pc = "web_idle" /\ event'.kind = "yahoo")
            /\ IF fetched'.ok
               THEN /\ PricesInUse' =
                         [keys |-> PriceKeys, ask |-> fetched'.ask, bid |-> fetched'.bid]
                    /\ quote' = [ask |-> fetched'.ask, bid |-> fetched'.bid]
               ELSE PricesInUse' = PricesInUse]_vars

\* in one browser session a second fetch fails and the prices set from the
\* mock source stay in use
C12_Witness ==
    /\ session # None
    /\ FetchFailed
    /\ fetches >= 2
    /\ event.kind = "yahoo"
    /\ origin.source = "mock"
    /\ PricesInUse = [keys |-> PriceKeys, ask |-> 4215, bid |-> 4185]

-----------------------------------------------------------------------------
(* Claim about the price options of the command line, checked under SpecCli *)

\* neither --ask nor --bid is on the command line
BlankPrices == IsNone(ns, "ask") /\ IsNone(ns, "bid")

\* main has got past the checks of the dates and the quantity (lines 226-230)
PastChecks ==
    /\ pc \in {"cli_params", "cli_calc", "exit"}
    /\ ~(err # None /\ err.line <= 230)

\* C13: in the non-interactive flow live scraping is enabled by --auto or by
\* leaving --ask / --bid blank: when both are omitted the quote source is
\* invoked and the calculation proceeds with the fetched pair, even without
\* --auto.
C13_AsStated ==
    (BlankPrices /\ PastChecks) =>
        /\ fetched # None
        /\ ~(err # None /\ err.line = 239)
        /\ (fetched.ok /\ pc = "cli_calc") =>
              (p.ask_price = fetched.ask /\ p.bid_price = fetched.bid)

-----------------------------------------------------------------------------
(* Claims about the session prices of the web form, checked under SpecWeb *)

\* C14: across any sequence of script runs the session keys ask_price and
\* bid_price are either both present or both absent; whenever a run reaches
\* the validation both are present, so the 'prices missing' error is never
\* raised and calc_trade is only called with both session prices set; the
\* reset button deletes both keys and restarts the run without reaching the
\* validation.
C14_SessionPrices ==
    /\ session.keys = {} \/ session.keys = PriceKeys
    /\ pc \in {"web_validate", "web_calc"} => session.keys = PriceKeys
    /\ "fetch or enter prices" \notin validation_errors
    /\ ~(err # None /\ err.type = "AttributeError")
    /\ pc = "web_calc" =>
          (p.ask_price = session.ask_price /\ p.bid_price = session.bid_price)
    /\ event.kind = "reset" => (pc = "web_rerun" /\ session.keys = {})
    /\ pc = "web_rerun" => event.kind = "reset"

\* after a fetch the prices were reset, and the run that st.rerun() started
\* has reached the validation with both keys set again
C14_Witness ==
    /\ pc = "web_validate"
    /\ event.kind = "rerun"
    /\ fetched # None /\ fetched.ok
    /\ session.keys = PriceKeys
    /\ session.ask_price = DefaultAsk /\ session.bid_price = DefaultBid

\* C15: whenever calc_trade is invoked with a price pair obtained from a quote
\* source (Yahoo, alternative or mock) rather than from the manual inputs,
\* that pair was fetched for the ticker passed in the same TradeParams.
C15_AsStated ==
    (pc = "web_calc" /\ origin.source \in {"yahoo", "alternative", "mock"}) =>
        origin.ticker = p.ticker

=============================================================================
